---- MODULE Spec2Model ----
(***************************************************************************)
(* A model of the puzzle15 crate (src/puzzle15/src/lib.rs): the 4x4 board  *)
(* GameState with its moves, and the breadth-first find_shortest_path.     *)
(*                                                                         *)
(* A board is board[x][y] with x the column and y the row, both in 0..3,   *)
(* as in the crate's column-major Vec<Vec<Option<u8>>>.  A cell Some(v) is *)
(* the number v; the cell None is the value None below, which is no u8.    *)
(***************************************************************************)
EXTENDS Integers, Sequences, FiniteSets

\* ------------------------------------------------------------------ bounds
\* The budget of the calls made on the board under Spec: each move attempted
\* by perform_move or perform_moves takes one unit of it, each call of swap
\* SwapWeight units.
MaxMoves == 6
SwapWeight == MaxMoves \div 2
\* find_shortest_path is called on a start at most MaxSetup moves away from
\* the default board and a goal at most MaxDepth moves away from it, start
\* included; a level after level MaxDepth + 1 is modelled only when its
\* frontier is empty.
MaxSetup == 2
MaxDepth == 5
\* Calls of set made on the board under SetSpec.
MaxSets == 2
\* The boards rendered under ParseSpec are at most MaxRender moves away from
\* the default board.
MaxRender == 2

\* ------------------------------------------------------------ the board
\* Option::None of a cell; every Some(v) is v in 0..255.
None == -1

Idx == 0..3

LeftToRight == "LeftToRight"
RightToLeft == "RightToLeft"
TopToBottom == "TopToBottom"
BottomToTop == "BottomToTop"

\* enum Move
Move == {LeftToRight, RightToLeft, TopToBottom, BottomToTop}

\* Board with column x given as cols[x+1], cell (x, y) as cols[x+1][y+1].
FromCols(cols) == [x \in Idx |-> [y \in Idx |-> cols[x + 1][y + 1]]]

\* impl Default for GameState
DefaultBoard ==
    FromCols(<< <<1, 5, 9, 13>>,
                <<2, 6, 10, 14>>,
                <<3, 7, 11, 15>>,
                <<4, 8, 12, None>> >>)

\* GameState::set
set(b, x, y, tile) == [b EXCEPT ![x][y] = tile]

\* GameState::get
get(b, x, y) == b[x][y]

\* impl PartialEq for GameState: the loop over i, j in 0..4
eq(a, b) == \A ci \in Idx : \A cj \in Idx : a[ci][cj] = b[ci][cj]

\* The k-th cell in the scan order of the crate's nested loops
\* (for i in 0..4 { for j in 0..4 {..} }): i = k \div 4, j = k % 4.
ScanCell(b, k) == b[k \div 4][k % 4]

\* An all_tiles_unique that tests the range of the tiles and keeps no tracker.
all_tiles_in_range(b) ==
    \A k \in 0..15 : ScanCell(b, k) = None \/ ~(ScanCell(b, k) > 15 \/ ScanCell(b, k) < 1)

\* GameState::all_tiles_unique: the scan from cell k on, tile_tracker being
\* the set of tracker slots already set to 1 (slot 0 is None's).
RECURSIVE TilesUniqueFrom(_, _, _)
TilesUniqueFrom(b, k, tile_tracker) ==
    IF k = 16 THEN TRUE
    ELSE LET c == ScanCell(b, k)
             slot == IF c = None THEN 0 ELSE c
         IN  IF c # None /\ (c > 15 \/ c < 1) THEN FALSE
             ELSE IF slot \in tile_tracker THEN FALSE
             ELSE TilesUniqueFrom(b, k + 1, tile_tracker \cup {slot})

all_tiles_unique(b) == TilesUniqueFrom(b, 0, {})

\* GameState::empty_loc: the first None cell in scan order.  (The crate
\* panics on a board without one; no board of this model is without.)
empty_loc(b) ==
    LET k == CHOOSE k \in 0..15 :
                 /\ ScanCell(b, k) = None
                 /\ \A h \in 0..(k - 1) : ScanCell(b, h) # None
    IN  <<k \div 4, k % 4>>

\* A swap that copies (x2, y2) over (x1, y1) and forgets tmp.
swap_lossy(b, x1, y1, x2, y2) == [b EXCEPT ![x1][y1] = b[x2][y2]]

\* A swap that indexes the second cell as (y2, x2).
swap_transposed(b, x1, y1, x2, y2) ==
    LET tmp == b[x1][y1]
        b1 == [b EXCEPT ![x1][y1] = b[y2][x2]]
    IN  [b1 EXCEPT ![y2][x2] = tmp]

\* GameState::swap
swap(b, x1, y1, x2, y2) ==
    LET tmp == b[x1][y1]
        b1 == [b EXCEPT ![x1][y1] = b[x2][y2]]
    IN  [b1 EXCEPT ![x2][y2] = tmp]

\* perform_move's outcome: the value returned and the board left behind.
Outcome(ok, b) == [ok |-> ok, board |-> b]

\* perform_move with the two vertical arms exchanged.
perform_move_flipped(b, m) ==
    LET e == empty_loc(b)
        x == e[1]
        y == e[2]
    IN  CASE m = LeftToRight ->
               IF x = 0 THEN Outcome(FALSE, b) ELSE Outcome(TRUE, swap(b, x, y, x - 1, y))
          [] m = RightToLeft ->
               IF x = 3 THEN Outcome(FALSE, b) ELSE Outcome(TRUE, swap(b, x, y, x + 1, y))
          [] m = TopToBottom ->
               IF y = 3 THEN Outcome(FALSE, b) ELSE Outcome(TRUE, swap(b, x, y, x, y + 1))
          [] m = BottomToTop ->
               IF y = 0 THEN Outcome(FALSE, b) ELSE Outcome(TRUE, swap(b, x, y, x, y - 1))

\* perform_move whose RightToLeft arm is a copy of the LeftToRight arm.
perform_move_pasted(b, m) ==
    LET e == empty_loc(b)
        x == e[1]
        y == e[2]
    IN  CASE m = LeftToRight ->
               IF x = 0 THEN Outcome(FALSE, b) ELSE Outcome(TRUE, swap(b, x, y, x - 1, y))
          [] m = RightToLeft ->
               IF x = 0 THEN Outcome(FALSE, b) ELSE Outcome(TRUE, swap(b, x, y, x - 1, y))
          [] m = BottomToTop ->
               IF y = 3 THEN Outcome(FALSE, b) ELSE Outcome(TRUE, swap(b, x, y, x, y + 1))
          [] m = TopToBottom ->
               IF y = 0 THEN Outcome(FALSE, b) ELSE Outcome(TRUE, swap(b, x, y, x, y - 1))

\* GameState::perform_move
perform_move(b, m) ==
    LET e == empty_loc(b)
        x == e[1]
        y == e[2]
    IN  CASE m = LeftToRight ->
               IF x = 0 THEN Outcome(FALSE, b) ELSE Outcome(TRUE, swap(b, x, y, x - 1, y))
          [] m = RightToLeft ->
               IF x = 3 THEN Outcome(FALSE, b) ELSE Outcome(TRUE, swap(b, x, y, x + 1, y))
          [] m = BottomToTop ->
               IF y = 3 THEN Outcome(FALSE, b) ELSE Outcome(TRUE, swap(b, x, y, x, y + 1))
          [] m = TopToBottom ->
               IF y = 0 THEN Outcome(FALSE, b) ELSE Outcome(TRUE, swap(b, x, y, x, y - 1))

\* The loop of perform_moves from move k on: count and board so far.
RECURSIVE MovesFrom(_, _, _, _)
MovesFrom(b, moves, k, count) ==
    IF k > Len(moves) THEN [count |-> count, board |-> b]
    ELSE LET r == perform_move(b, moves[k])
         IN  MovesFrom(r.board, moves, k + 1, IF r.ok THEN count + 1 ELSE count)

\* perform_moves that gives up at the first move that fails.
RECURSIVE MovesFromAborting(_, _, _, _)
MovesFromAborting(b, moves, k, count) ==
    IF k > Len(moves) THEN [count |-> count, board |-> b]
    ELSE LET r == perform_move(b, moves[k])
         IN  IF r.ok THEN MovesFromAborting(r.board, moves, k + 1, count + 1)
             ELSE [count |-> count, board |-> b]

perform_moves_aborting(b, moves) == MovesFromAborting(b, moves, 1, 0)

\* GameState::perform_moves
perform_moves(b, moves) == MovesFrom(b, moves, 1, 0)

\* All move sequences of length at most n.
MoveSeqs(n) == UNION {[1..k -> Move] : k \in 0..n}

\* ------------------------------------------------ Display and from_str
\* A text is a sequence of characters: each a string of length one, or the
\* name of its code point when no string of this module can hold it.
NL == "\n"
CR == "\r"
FF == "\f"
NBSP == "U+00A0"
Bar == "|"
Blank == " "

Digits == <<"0", "1", "2", "3", "4", "5", "6", "7", "8", "9">>

IsDigit(ch) == \E d \in 1..10 : Digits[d] = ch

DigitValue(ch) == (CHOOSE d \in 1..10 : Digits[d] = ch) - 1

\* The Unicode White_Space characters, the ones char::is_whitespace is true
\* of.  A character no string of this module can hold is written by the name
\* of its code point.
WhiteSpace ==
    {Blank, NL, CR, FF, "\t", "U+000B", "U+0085", NBSP, "U+1680",
     "U+2000", "U+2001", "U+2002", "U+2003", "U+2004", "U+2005", "U+2006",
     "U+2007", "U+2008", "U+2009", "U+200A", "U+2028", "U+2029", "U+202F",
     "U+205F", "U+3000"}

\* char::is_whitespace
IsWhite(ch) == ch \in WhiteSpace

\* The decimal digits of a u8, as format!("{}", v) writes them.
RECURSIVE Decimal(_)
Decimal(v) == IF v < 10 THEN <<Digits[v + 1]>> ELSE Decimal(v \div 10) \o <<Digits[(v % 10) + 1]>>

\* format!("{:>2}", v): right-aligned in a field of at least two characters.
PadTwo(v) == IF Len(Decimal(v)) < 2 THEN <<Blank>> \o Decimal(v) ELSE Decimal(v)

\* The cell written by fmt: "| {:>2} " for Some(v), "|    " for None.
FmtCell(c) ==
    IF c = None THEN <<Bar, Blank, Blank, Blank, Blank>>
    ELSE <<Bar, Blank>> \o PadTwo(c) \o <<Blank>>

\* A fmt that reads board[x][y] where the crate reads board[y][x].
RECURSIVE FmtFromTransposed(_, _)
FmtFromTransposed(b, k) ==
    IF k = 16 THEN <<>>
    ELSE FmtCell(b[k \div 4][k % 4])
           \o (IF k % 4 = 3 THEN <<Bar, NL>> ELSE <<>>)
           \o FmtFromTransposed(b, k + 1)

fmt_transposed(b) == FmtFromTransposed(b, 0)

\* The loops of fmt from step k on: x = k \div 4 is the outer variable (the
\* row), y = k % 4 the inner one (the column), the cell read is board[y][x].
RECURSIVE FmtFrom(_, _)
FmtFrom(b, k) ==
    IF k = 16 THEN <<>>
    ELSE FmtCell(b[k % 4][k \div 4])
           \o (IF k % 4 = 3 THEN <<Bar, NL>> ELSE <<>>)
           \o FmtFrom(b, k + 1)

\* impl Display for GameState: fmt
fmt(b) == FmtFrom(b, 0)

\* str::split(ch): the pieces of t between the occurrences of ch, from
\* position start on; one piece more than there are occurrences.
RECURSIVE SplitFrom(_, _, _)
SplitFrom(t, ch, start) ==
    LET hits == {j \in start..Len(t) : t[j] = ch}
    IN  IF hits = {} THEN <<SubSeq(t, start, Len(t))>>
        ELSE LET j == CHOOSE j \in hits : \A h \in hits : j <= h
             IN  <<SubSeq(t, start, j - 1)>> \o SplitFrom(t, ch, j + 1)

split(t, ch) == SplitFrom(t, ch, 1)

\* A line without its line ending: the carriage return before the line feed
\* is part of the ending.
StripCR(piece) ==
    IF piece # <<>> /\ piece[Len(piece)] = CR THEN SubSeq(piece, 1, Len(piece) - 1) ELSE piece

\* str::lines: the lines of t, each ended by "\n" or "\r\n", without their
\* endings; what follows the last line feed is a line when it is not empty,
\* and keeps a carriage return at its end.
lines(t) ==
    LET pieces == split(t, NL)
        ended == [k \in 1..(Len(pieces) - 1) |-> StripCR(pieces[k])]
    IN  IF pieces[Len(pieces)] = <<>> THEN ended ELSE Append(ended, pieces[Len(pieces)])

\* str::trim
trim(t) ==
    LET solid == {j \in 1..Len(t) : ~IsWhite(t[j])}
    IN  IF solid = {} THEN <<>>
        ELSE SubSeq(t, CHOOSE j \in solid : \A h \in solid : j <= h,
                       CHOOSE j \in solid : \A h \in solid : j >= h)

\* The value of a sequence of digits.
RECURSIVE DecimalValue(_)
DecimalValue(t) ==
    IF t = <<>> THEN 0
    ELSE 10 * DecimalValue(SubSeq(t, 1, Len(t) - 1)) + DigitValue(t[Len(t)])

\* str::parse::<u8>: an optional "+", then one digit or more, the value at
\* most 255; <<v>> for Ok(v), <<>> for Err.
parse_u8(t) ==
    LET body == IF t # <<>> /\ t[1] = "+" THEN SubSeq(t, 2, Len(t)) ELSE t
    IN  IF body = <<>> \/ \E j \in 1..Len(body) : ~IsDigit(body[j]) THEN <<>>
        ELSE IF Len(body) > 3 /\ \E j \in 1..(Len(body) - 3) : body[j] # "0" THEN <<>>
        ELSE LET v == DecimalValue(body)
             IN  IF v > 255 THEN <<>> ELSE <<v>>

\* from_str: s.lines().map(str::trim).filter(|line| !line.is_empty())
RowsOf(t) ==
    LET trimmed == [k \in 1..Len(lines(t)) |-> trim(lines(t)[k])]
    IN  SelectSeq(trimmed, LAMBDA line : line # <<>>)

\* from_str: row.split('|').map(str::trim)
ElementsOf(row) ==
    LET pieces == split(row, Bar)
    IN  [k \in 1..Len(pieces) |-> trim(pieces[k])]

\* The cell from_str makes of an element: None, Some(value), or "Err".
CellOf(element) ==
    IF element = <<>> THEN None
    ELSE LET v == parse_u8(element)
         IN  IF v = <<>> THEN "Err" ELSE v[1]

\* from_str without its last test.
from_str_unvalidated(t) ==
    LET rows == RowsOf(t)
    IN  IF Len(rows) # 4 THEN <<>>
        ELSE LET elements == [r \in 1..4 |-> ElementsOf(rows[r])]
             IN  IF \E r \in 1..4 : Len(elements[r]) # 6 THEN <<>>
                 ELSE IF \E r \in 1..4 : \E col \in 1..4 :
                             elements[r][col + 1] # <<>> /\ parse_u8(elements[r][col + 1]) = <<>>
                      THEN <<>>
                 ELSE <<[col_index \in Idx |-> [row_index \in Idx |->
                             CellOf(elements[row_index + 1][col_index + 2])]]>>

\* GameState::from_str: <<state>> for Some(state), <<>> for None.  The rows
\* are read in order and each return None ends the call, so the result is
\* None as soon as one row or one element fails.
from_str(t) ==
    LET rows == RowsOf(t)
    IN  IF Len(rows) # 4 THEN <<>>
        ELSE LET elements == [r \in 1..4 |-> ElementsOf(rows[r])]
             IN  IF \E r \in 1..4 : Len(elements[r]) # 6 THEN <<>>
                 ELSE IF \E r \in 1..4 : \E col \in 1..4 :
                             elements[r][col + 1] # <<>> /\ parse_u8(elements[r][col + 1]) = <<>>
                      THEN <<>>
                 ELSE LET matrix == [col_index \in Idx |-> [row_index \in Idx |->
                                        CellOf(elements[row_index + 1][col_index + 2])]]
                      IN  IF all_tiles_unique(matrix) THEN <<matrix>> ELSE <<>>

\* The characters an edit of a rendered text writes.
EditChars == {Blank, Bar, NL, CR, FF, NBSP, "0", "1", "5", "9", "x", ",", "+"}

\* A rendered text with one character replaced, removed or put in.
Replaced(t, pos, ch) == [t EXCEPT ![pos] = ch]
Removed(t, pos) == SubSeq(t, 1, pos - 1) \o SubSeq(t, pos + 1, Len(t))
PutIn(t, pos, ch) == SubSeq(t, 1, pos - 1) \o <<ch>> \o SubSeq(t, pos, Len(t))

\* ---------------------------------------------------- find_shortest_path
\* for _i in 1..=1000
LevelLimit == 1000

\* The moves tried with TopToBottom first.
MoveOrderVerticalFirst == <<TopToBottom, LeftToRight, RightToLeft, BottomToTop>>

\* The order in which the inner loop tries the moves.
MoveOrder == <<LeftToRight, RightToLeft, TopToBottom, BottomToTop>>

\* let mut curr_state = from.clone(); curr_state.perform_moves(&path);
Replay(start, path) == perform_moves(start, path).board

\* A contains_key that answers the opposite.
contains_key_inverted(discovered, b) == b \notin discovered

\* states_discovered.contains_key(&curr_state.board): the map's values are
\* all true, so the map is the set of its keys.
contains_key(discovered, b) == b \in discovered

\* A push that is forgotten.
push_forgotten(path, mv) == path

\* A push at the front.
push_front(path, mv) == <<mv>> \o path

\* new_path.push(mv)
push(path, mv) == Append(path, mv)

\* The boards at most n moves away from b.
RECURSIVE ReachWithin(_, _)
ReachWithin(b, n) ==
    IF n = 0 THEN {b}
    ELSE LET near == ReachWithin(b, n - 1)
         IN  near \cup {perform_move(c, m).board : c \in near, m \in Move}

\* A board all of whose tiles are 1, its empty cell at (2, 2): what sixteen
\* calls of set leave.  Only sixteen boards can be reached from it.
RECURSIVE SetAllFrom(_, _)
SetAllFrom(b, k) ==
    IF k = 16 THEN b
    ELSE SetAllFrom(set(b, k \div 4, k % 4, IF k = 10 THEN None ELSE 1), k + 1)

UniformBoard == SetAllFrom(DefaultBoard, 0)

\* The calls find_shortest_path(from, to) of the model: a goal that the
\* start reaches, the start with tiles 1 and 2 exchanged (the other parity
\* class), and the sixteen-board start with a goal it reaches or not.
PairsAfter(k) ==
    UNION { {<<f, t>> : t \in ReachWithin(f, MaxDepth - k)} :
              f \in ReachWithin(DefaultBoard, k) }

ReachablePairs == UNION {PairsAfter(k) : k \in 0..MaxSetup}

OtherParityPairs ==
    {<<f, swap(f, 0, 0, 1, 0)>> : f \in ReachWithin(DefaultBoard, MaxSetup)}

UniformPairs ==
    {<<UniformBoard, t>> : t \in ReachWithin(UniformBoard, 1) \cup {DefaultBoard}}

\* Six moves around the 2x2 block at the empty cell of the default board:
\* the nearest goal that two shortest paths reach, one each way round.
AroundBlock ==
    <<TopToBottom, LeftToRight, BottomToTop, RightToLeft, TopToBottom, LeftToRight>>

TwoWayPairs == {<<DefaultBoard, perform_moves(DefaultBoard, AroundBlock).board>>}

SearchInputs == ReachablePairs \cup OtherParityPairs \cup UniformPairs \cup TwoWayPairs

\* ------------------------------------------------------------------ state
VARIABLES
    board,      \* the GameState the caller holds
    last,       \* the last call made on it: its arguments, the board before, the value returned
    attempted,  \* the budget used so far: moves attempted, calls of swap and of set
    from,       \* find_shortest_path's arguments
    to,
    paths,              \* the frontier being expanded
    new_paths,          \* the next frontier
    states_discovered,  \* the keys of the HashMap
    _i,                 \* the outer loop's _i
    pathIdx,            \* the position of `for path in paths`
    mvIdx,              \* the position of `for mv in vec![..]`
    pc,                 \* "loop", "returned" or "panicked"; "idle" when no call is made
    result,             \* the Vec<Move> returned
    appended,           \* history: every path pushed to paths or new_paths, in order
    text,               \* the text written by format!("{board}"), then given to from_str
    edited,             \* whether one character of the text was changed before parsing
    parsed,             \* the Option<GameState> from_str returned
    ppc                 \* "state", "text" or "parsed"; "idle" when nothing is rendered

boardVars == <<board, last, attempted>>
searchVars ==
    <<from, to, paths, new_paths, states_discovered, _i, pathIdx, mvIdx, pc, result, appended>>
parseVars == <<text, edited, parsed, ppc>>
vars == <<boardVars, searchVars, parseVars>>

NoCall == [op |-> "none"]

\* No call of find_shortest_path is under way.
SearchIdle ==
    /\ from = DefaultBoard
    /\ to = DefaultBoard
    /\ paths = <<>>
    /\ new_paths = <<>>
    /\ states_discovered = {}
    /\ _i = 0
    /\ pathIdx = 0
    /\ mvIdx = 0
    /\ pc = "idle"
    /\ result = <<>>
    /\ appended = <<>>

\* Nothing is rendered or parsed.
ParseIdle ==
    /\ text = <<>>
    /\ edited = FALSE
    /\ parsed = <<>>
    /\ ppc = "idle"

Init ==
    /\ board = DefaultBoard
    /\ last = NoCall
    /\ attempted = 0
    /\ SearchIdle
    /\ ParseIdle

\* state.perform_move(m)
PerformMove(m) ==
    /\ attempted < MaxMoves
    /\ LET r == perform_move(board, m)
       IN  /\ board' = r.board
           /\ last' = [op |-> "perform_move", m |-> m, pre |-> board, ret |-> r.ok]
    /\ attempted' = attempted + 1
    /\ UNCHANGED <<searchVars, parseVars>>

\* state.perform_moves(moves)
PerformMoves(moves) ==
    /\ attempted + Len(moves) <= MaxMoves
    /\ LET r == perform_moves(board, moves)
       IN  /\ board' = r.board
           /\ last' = [op |-> "perform_moves", moves |-> moves, pre |-> board, ret |-> r.count]
    /\ attempted' = attempted + Len(moves)
    /\ UNCHANGED <<searchVars, parseVars>>

\* state.swap(x1, y1, x2, y2), called by the holder of the board
Swap(x1, y1, x2, y2) ==
    /\ attempted + SwapWeight <= MaxMoves
    /\ board' = swap(board, x1, y1, x2, y2)
    /\ last' = [op |-> "swap", x1 |-> x1, y1 |-> y1, x2 |-> x2, y2 |-> y2, pre |-> board]
    /\ attempted' = attempted + SwapWeight
    /\ UNCHANGED <<searchVars, parseVars>>

Next ==
    \/ \E m \in Move : PerformMove(m)
    \/ \E moves \in MoveSeqs(MaxMoves - attempted) : PerformMoves(moves)
    \/ \E x1 \in Idx, y1 \in Idx, x2 \in Idx, y2 \in Idx : Swap(x1, y1, x2, y2)

Spec == Init /\ [][Next]_vars

\* The tiles given to set: no tile, 0, two tiles of the board, and 16.
SetTiles == {None, 0, 1, 4, 16}

\* state.set(x, y, tile)
Set(x, y, tile) ==
    /\ attempted < MaxSets
    /\ board' = set(board, x, y, tile)
    /\ last' = [op |-> "set", x |-> x, y |-> y, tile |-> tile, pre |-> board]
    /\ attempted' = attempted + 1
    /\ UNCHANGED <<searchVars, parseVars>>

SetNext == \E x \in Idx, y \in Idx, tile \in SetTiles : Set(x, y, tile)

\* A default board changed by calls of set.
SetSpec == Init /\ [][SetNext]_vars

\* find_shortest_path(from, to) entered: the state before the outer loop.
SearchInit ==
    /\ board = DefaultBoard
    /\ last = NoCall
    /\ attempted = 0
    /\ \E p \in SearchInputs : from = p[1] /\ to = p[2]
    /\ paths = << <<>> >>
    /\ new_paths = <<>>
    /\ states_discovered = {}
    /\ _i = 1
    /\ pathIdx = 1
    /\ mvIdx = 1
    /\ pc = "loop"
    /\ result = <<>>
    /\ appended = << <<>> >>
    /\ ParseIdle

\* The loops' positions after the body has run for (pathIdx, mvIdx).
Advance ==
    IF mvIdx < Len(MoveOrder)
    THEN pathIdx' = pathIdx /\ mvIdx' = mvIdx + 1
    ELSE pathIdx' = pathIdx + 1 /\ mvIdx' = 1

\* One run of the inner loop's body, for paths[pathIdx] and MoveOrder[mvIdx].
TryMove ==
    /\ pc = "loop"
    /\ pathIdx <= Len(paths)
    /\ LET path == paths[pathIdx]
           mv == MoveOrder[mvIdx]
           r == perform_move(Replay(from, path), mv)
           curr_state == r.board
           fresh == r.ok /\ ~contains_key(states_discovered, curr_state)
           new_path == IF fresh THEN push(path, mv) ELSE path
       IN  /\ states_discovered' =
                 IF fresh THEN states_discovered \cup {curr_state} ELSE states_discovered
           /\ new_paths' = IF fresh THEN Append(new_paths, new_path) ELSE new_paths
           /\ appended' = IF fresh THEN Append(appended, new_path) ELSE appended
           /\ IF eq(curr_state, to)
              THEN /\ pc' = "returned"
                   /\ result' = new_path
                   /\ UNCHANGED <<pathIdx, mvIdx>>
              ELSE /\ Advance
                   /\ UNCHANGED <<pc, result>>
    /\ UNCHANGED <<from, to, paths, _i, boardVars, parseVars>>

\* An outer iteration that ends with paths.extend(new_paths).
NextLevelExtends ==
    /\ pc = "loop"
    /\ pathIdx > Len(paths)
    /\ _i < LevelLimit
    /\ new_paths = <<>> \/ _i <= MaxDepth
    /\ paths' = paths \o new_paths
    /\ new_paths' = <<>>
    /\ _i' = _i + 1
    /\ pathIdx' = 1
    /\ mvIdx' = 1
    /\ UNCHANGED <<from, to, states_discovered, pc, result, appended, boardVars, parseVars>>

\* An outer iteration that ends without paths = new_paths.
NextLevelKeeps ==
    /\ pc = "loop"
    /\ pathIdx > Len(paths)
    /\ _i < LevelLimit
    /\ new_paths = <<>> \/ _i <= MaxDepth
    /\ paths' = paths
    /\ new_paths' = <<>>
    /\ _i' = _i + 1
    /\ pathIdx' = 1
    /\ mvIdx' = 1
    /\ UNCHANGED <<from, to, states_discovered, pc, result, appended, boardVars, parseVars>>

\* The end of one outer iteration: paths = new_paths, and the next begins.
NextLevel ==
    /\ pc = "loop"
    /\ pathIdx > Len(paths)
    /\ _i < LevelLimit
    /\ new_paths = <<>> \/ _i <= MaxDepth
    /\ paths' = new_paths
    /\ new_paths' = <<>>
    /\ _i' = _i + 1
    /\ pathIdx' = 1
    /\ mvIdx' = 1
    /\ UNCHANGED <<from, to, states_discovered, pc, result, appended, boardVars, parseVars>>

\* A search that gives the empty path when its loop runs out.
PanicReturnsEmpty ==
    /\ pc = "loop"
    /\ pathIdx > Len(paths)
    /\ _i = LevelLimit
    /\ pc' = "returned"
    /\ result' = <<>>
    /\ UNCHANGED <<from, to, paths, new_paths, states_discovered, _i, pathIdx, mvIdx, appended,
                   boardVars, parseVars>>

\* panic!("Did not find any valid path of any valid length")
Panic ==
    /\ pc = "loop"
    /\ pathIdx > Len(paths)
    /\ _i = LevelLimit
    /\ pc' = "panicked"
    /\ UNCHANGED <<from, to, paths, new_paths, states_discovered, _i, pathIdx, mvIdx, result,
                   appended, boardVars, parseVars>>

SearchNext ==
    \/ TryMove
    \/ NextLevel
    \/ Panic

SearchSpec == SearchInit /\ [][SearchNext]_vars

\* The states rendered: those at most MaxRender moves away from the default.
ParseInit ==
    /\ board \in ReachWithin(DefaultBoard, MaxRender)
    /\ last = NoCall
    /\ attempted = 0
    /\ SearchIdle
    /\ text = <<>>
    /\ edited = FALSE
    /\ parsed = <<>>
    /\ ppc = "state"

\* format!("{board}")
Format ==
    /\ ppc = "state"
    /\ text' = fmt(board)
    /\ ppc' = "text"
    /\ UNCHANGED <<edited, parsed, boardVars, searchVars>>

\* One character of the rendered text is replaced, removed or put in.
Edit ==
    /\ ppc = "text"
    /\ ~edited
    /\ \/ \E pos \in 1..Len(text), ch \in EditChars : text' = Replaced(text, pos, ch)
       \/ \E pos \in 1..Len(text) : text' = Removed(text, pos)
       \/ \E pos \in 1..(Len(text) + 1), ch \in EditChars : text' = PutIn(text, pos, ch)
    /\ text' # text
    /\ edited' = TRUE
    /\ UNCHANGED <<parsed, ppc, boardVars, searchVars>>

\* GameState::from_str(&text)
FromStr ==
    /\ ppc = "text"
    /\ parsed' = from_str(text)
    /\ ppc' = "parsed"
    /\ UNCHANGED <<text, edited, boardVars, searchVars>>

ParseNext ==
    \/ Format
    \/ Edit
    \/ FromStr

ParseSpec == ParseInit /\ [][ParseNext]_vars

\* ------------------------------------------------- the claims' vocabulary
Cells == Idx \X Idx

At(b, c) == b[c[1]][c[2]]

EmptyCells(b) == {c \in Cells : At(b, c) = None}

\* A valid board: every tile 1..15 in exactly one cell, exactly one empty cell.
ValidBoard(b) ==
    /\ \A v \in 1..15 : Cardinality({c \in Cells : At(b, c) = v}) = 1
    /\ Cardinality(EmptyCells(b)) = 1

\* The empty cell of a valid board.
TheEmpty(b) == CHOOSE c \in Cells : At(b, c) = None

\* The neighbor of cell c that move m names: the cell whose tile m pulls into c.
Neighbor(c, m) ==
    CASE m = LeftToRight -> <<c[1] - 1, c[2]>>
      [] m = RightToLeft -> <<c[1] + 1, c[2]>>
      [] m = TopToBottom -> <<c[1], c[2] - 1>>
      [] m = BottomToTop -> <<c[1], c[2] + 1>>

\* The empty cell c lies on the grid edge m would have to pull from.
OnPullEdge(c, m) ==
    CASE m = LeftToRight -> c[1] = 0
      [] m = RightToLeft -> c[1] = 3
      [] m = TopToBottom -> c[2] = 0
      [] m = BottomToTop -> c[2] = 3

\* The cells in which two boards differ.
Diff(a, b) == {c \in Cells : At(a, c) # At(b, c)}

\* The inverse of a move, and the reversed sequence of inverses.
Inverse(m) ==
    CASE m = LeftToRight -> RightToLeft
      [] m = RightToLeft -> LeftToRight
      [] m = TopToBottom -> BottomToTop
      [] m = BottomToTop -> TopToBottom

ReverseInverse(moves) ==
    [k \in 1..Len(moves) |-> Inverse(moves[Len(moves) + 1 - k])]

\* The moves of a sequence that are not blocked by an edge when their turn
\* comes, each unblocked move exchanging the empty cell with its neighbor.
RECURSIVE Unblocked(_, _, _)
Unblocked(b, moves, k) ==
    IF k > Len(moves) THEN <<>>
    ELSE LET e == TheEmpty(b)
             m == moves[k]
         IN  IF OnPullEdge(e, m) THEN Unblocked(b, moves, k + 1)
             ELSE LET n == Neighbor(e, m)
                      nb == [c \in Cells |-> IF c = e THEN At(b, n)
                                             ELSE IF c = n THEN None ELSE At(b, c)]
                  IN  <<m>> \o Unblocked([x \in Idx |-> [y \in Idx |-> nb[<<x, y>>]]],
                                         moves, k + 1)

\* The number of cells of b holding v.
TileCount(b, v) == Cardinality({c \in Cells : At(b, c) = v})

CellValues(b) == {At(b, c) : c \in Cells}

\* The parity class of a valid board: the parity of the number of inversions
\* of its sixteen cells read in scan order (the empty cell counting as the
\* smallest value) plus the column and the row of the empty cell.  A slide
\* exchanges two cells and moves the empty cell by one, so it keeps the class.
Inversions(b) ==
    Cardinality({hk \in (0..15) \X (0..15) :
                    hk[1] < hk[2] /\ ScanCell(b, hk[1]) > ScanCell(b, hk[2])})

ParityClass(b) == (Inversions(b) + TheEmpty(b)[1] + TheEmpty(b)[2]) % 2

\* Sufficient for t not to be reachable from f by slides: the two boards do
\* not hold the same tiles, or they are valid boards of different classes.
Unreachable(f, t) ==
    \/ \E v \in CellValues(f) \cup CellValues(t) : TileCount(f, v) # TileCount(t, v)
    \/ ValidBoard(f) /\ ValidBoard(t) /\ ParityClass(f) # ParityClass(t)

\* The search was stopped by the model's depth bound, not by the code.
CutShort ==
    /\ pc = "loop"
    /\ pathIdx > Len(paths)
    /\ new_paths # <<>>
    /\ _i > MaxDepth

\* ------------------------------------------------------ claims under Spec

\* C6: on a valid board perform_move(m) returns false exactly when the empty
\* cell lies on the edge m would pull from, and a false return leaves all 16
\* cells as they were.
C6_IllegalIffOnEdge ==
    (last.op = "perform_move" /\ ValidBoard(last.pre)) =>
        /\ (last.ret = FALSE) <=> OnPullEdge(TheEmpty(last.pre), last.m)
        /\ (last.ret = FALSE) => \A c \in Cells : At(board, c) = At(last.pre, c)

C6_Witness ==
    /\ last.op = "perform_move"
    /\ last.ret = FALSE
    /\ last.m = LeftToRight
    /\ TheEmpty(last.pre)[1] = 0
    /\ ValidBoard(last.pre)

\* C7: a perform_move(m) that returns true on a valid board changes exactly
\* two cells: the tile of the neighbor m names now sits where the empty cell
\* was, the empty cell where that tile was.
C7_LegalMoveIsExchange ==
    (last.op = "perform_move" /\ ValidBoard(last.pre) /\ last.ret = TRUE) =>
        LET e == TheEmpty(last.pre)
            n == Neighbor(e, last.m)
        IN  /\ n \in Cells
            /\ Diff(last.pre, board) = {e, n}
            /\ At(board, e) = At(last.pre, n)
            /\ At(board, e) # None
            /\ At(board, n) = None

C7_Witness ==
    /\ last.op = "perform_move"
    /\ last.ret = TRUE
    /\ last.m = BottomToTop
    /\ TheEmpty(last.pre) = <<1, 2>>
    /\ At(board, <<1, 2>>) = At(last.pre, <<1, 3>>)

\* C8: after any sequence of perform_move / perform_moves calls from a valid
\* board, legal or not, the board is valid: all_tiles_unique is true and
\* there is exactly one empty cell.
C8_MovesKeepValid ==
    /\ all_tiles_unique(board)
    /\ Cardinality(EmptyCells(board)) = 1
    /\ ValidBoard(board)

C8_Witness ==
    /\ last.op = "perform_moves"
    /\ last.ret > 0
    /\ last.ret < Len(last.moves)
    /\ attempted = MaxMoves
    /\ all_tiles_unique(board)

\* C9: a sequence all of whose moves succeeded is undone by the reversed
\* sequence of inverse moves: each of them succeeds and the board is back
\* to its content before.
C9_InverseUndoes ==
    (last.op = "perform_moves" /\ last.ret = Len(last.moves)) =>
        LET back == perform_moves(board, ReverseInverse(last.moves))
        IN  /\ back.count = Len(last.moves)
            /\ eq(back.board, last.pre)
            /\ back.board = last.pre

C9_Witness ==
    /\ last.op = "perform_moves"
    /\ Len(last.moves) >= 4
    /\ last.ret = Len(last.moves)
    /\ {last.moves[k] : k \in 1..Len(last.moves)} = Move
    /\ board # last.pre

\* C10: perform_moves attempts every move in order and skips the ones that
\* fail: it returns the number of moves that succeeded and leaves the board
\* that those moves alone, in order, give; on the default board
\* [RightToLeft, BottomToTop, TopToBottom] returns 1 and leaves the board of
\* [TopToBottom].
C10_SkipsFailingMoves ==
    (last.op = "perform_moves") =>
        LET kept == Unblocked(last.pre, last.moves, 1)
            alone == perform_moves(last.pre, kept)
        IN  /\ last.ret = Len(kept)
            /\ alone.count = Len(kept)
            /\ eq(board, alone.board)
            /\ (last.pre = DefaultBoard
                  /\ last.moves = <<RightToLeft, BottomToTop, TopToBottom>>) =>
                    /\ last.ret = 1
                    /\ eq(board, perform_moves(DefaultBoard, <<TopToBottom>>).board)
                    /\ perform_moves(DefaultBoard, <<TopToBottom>>).count = 1

C10_Witness ==
    /\ last.op = "perform_moves"
    /\ last.pre = DefaultBoard
    /\ last.moves = <<RightToLeft, BottomToTop, TopToBottom>>
    /\ last.ret = 1
    /\ At(board, <<3, 2>>) = None

\* ------------------------------------------------ claims under SearchSpec

\* C1: for a valid start and a goal it reaches, the sequence returned by
\* find_shortest_path realizes the goal: replayed on the start with
\* perform_moves every move succeeds and the board left equals the goal.
\* (A goal within the model's depth is always answered: no panic, no cut.)
C1_ReturnedPathReachesGoal ==
    /\ (pc = "returned" /\ ValidBoard(from)) =>
          LET r == perform_moves(from, result)
          IN  /\ r.count = Len(result)
              /\ eq(r.board, to)
              /\ r.board = to
    /\ (ValidBoard(from) /\ <<from, to>> \in ReachablePairs) =>
          pc # "panicked" /\ ~CutShort

C1_Witness ==
    /\ pc = "returned"
    /\ ValidBoard(from)
    /\ from # DefaultBoard
    /\ Len(result) = 3
    /\ perform_moves(from, result).board = to
    /\ perform_moves(from, result).count = 3

\* C2: for a valid start and a reachable goal other than the start, the
\* sequence returned has the minimum length: the goal is that many moves
\* away and no fewer.
C2_ReturnedPathIsShortest ==
    (pc = "returned" /\ ValidBoard(from) /\ ~eq(from, to)) =>
        /\ Len(result) >= 1
        /\ to \in ReachWithin(from, Len(result))
        /\ to \notin ReachWithin(from, Len(result) - 1)

C2_Witness ==
    /\ pc = "returned"
    /\ ValidBoard(from)
    /\ ~eq(from, to)
    /\ Len(result) = 4
    /\ to \notin ReachWithin(from, 3)

\* C3: find_shortest_path(B, B) returns the empty sequence for every valid
\* board B, wherever its empty cell is.
C3_SameBoardGivesEmptyPath ==
    (pc = "returned" /\ ValidBoard(from) /\ eq(from, to)) => result = <<>>

\* C4: when the goal is not reachable from the start, find_shortest_path
\* never returns a sequence, and it ends only by the panic that follows the
\* last of the 1000 levels.
C4_UnreachableGoalPanics ==
    Unreachable(from, to) =>
        /\ pc # "returned"
        /\ to \notin states_discovered
        /\ pc = "panicked" => (_i = LevelLimit /\ pathIdx > Len(paths))
        /\ (pc = "loop" /\ pathIdx > Len(paths) /\ _i = LevelLimit) => ENABLED Panic

C4_Witness ==
    /\ Unreachable(from, to)
    /\ pc = "panicked"
    /\ _i = LevelLimit

\* C5: for the three sequences of the crate's test, with B the board they
\* give on the default board, find_shortest_path(default, B) returns exactly
\* the sequence.
TestPaths ==
    { <<TopToBottom, TopToBottom, TopToBottom>>,
      <<TopToBottom, LeftToRight, BottomToTop>>,
      <<TopToBottom, LeftToRight, LeftToRight, LeftToRight, TopToBottom>> }

C5_TestPathsReturnedExactly ==
    \A S \in TestPaths :
        LET B == perform_moves(DefaultBoard, S)
        IN  (from = DefaultBoard /\ to = B.board) =>
                /\ B.count = Len(S)
                /\ pc # "panicked"
                /\ ~CutShort
                /\ pc = "returned" => result = S

C5_Witness ==
    /\ pc = "returned"
    /\ from = DefaultBoard
    /\ result = <<TopToBottom, LeftToRight, LeftToRight, LeftToRight, TopToBottom>>
    /\ to = perform_moves(DefaultBoard, result).board

\* The claims' order of the moves: LeftToRight < RightToLeft < TopToBottom
\* < BottomToTop.
Rank(m) ==
    CASE m = LeftToRight -> 1
      [] m = RightToLeft -> 2
      [] m = TopToBottom -> 3
      [] m = BottomToTop -> 4

\* a comes before b in the lexicographic order, a and b of one length.
LexLess(a, b) ==
    \E j \in 1..Len(a) :
        /\ Rank(a[j]) < Rank(b[j])
        /\ \A h \in 1..(j - 1) : a[h] = b[h]

\* s is a sequence of legal moves that takes f to t.
Takes(f, s, t) ==
    LET r == perform_moves(f, s)
    IN  r.count = Len(s) /\ r.board = t

\* The path pushed last.
LastAppended == appended[Len(appended)]

\* An outer iteration is about to begin.
AtLevelStart == pc = "loop" /\ pathIdx = 1 /\ mvIdx = 1

\* C15: the path that first marks a board visited, and is pushed for it, is
\* a minimum-length path from the start to that board.
C15_FirstDiscoveryIsShortest ==
    (ValidBoard(from) /\ pc # "idle" /\ Len(LastAppended) >= 1) =>
        /\ Replay(from, LastAppended) \in states_discovered
        /\ Replay(from, LastAppended) \notin ReachWithin(from, Len(LastAppended) - 1)

\* C16: a path is pushed only for a board that was not visited, and the
\* board is marked in the same step, so that no two paths ever pushed reach
\* the same board.
C16_NoBoardReachedTwice ==
    (ValidBoard(from) /\ pc # "idle") =>
        /\ \A k \in 2..Len(appended) : Replay(from, appended[k]) \in states_discovered
        /\ \A k \in 1..(Len(appended) - 1) :
               Replay(from, appended[k]) # Replay(from, LastAppended)

\* C17: when the k-th outer iteration begins every path of the frontier has
\* length k - 1 and replays from the start without a failed move, and every
\* path pushed to the next frontier during it has length k.
C17_LevelByLevel ==
    (pc # "idle") =>
        /\ \A k \in 1..Len(paths) : Len(paths[k]) = _i - 1
        /\ \A k \in 1..Len(new_paths) : Len(new_paths[k]) = _i
        /\ AtLevelStart =>
               \A k \in 1..Len(paths) : perform_moves(from, paths[k]).count = _i - 1
        /\ new_paths # <<>> =>
               /\ new_paths[Len(new_paths)] = LastAppended
               /\ perform_moves(from, LastAppended).count = _i

C17_Witness ==
    /\ AtLevelStart
    /\ _i = 4
    /\ Len(paths) >= 8
    /\ ValidBoard(from)
    /\ \A k \in 1..Len(paths) : perform_moves(from, paths[k]).count = 3

\* C18: for a valid start and a goal d >= 1 moves away, find_shortest_path
\* returns during level d: no level beyond d begins, the search is not cut
\* short of a return and the panic is never reached.
C18_ReturnsAtLevelOfDistance ==
    (pc # "idle" /\ ValidBoard(from) /\ ~Unreachable(from, to) /\ ~eq(from, to)) =>
        /\ pc # "panicked"
        /\ ~CutShort
        /\ _i <= MaxDepth + 1
        /\ (AtLevelStart \/ pc = "returned") => to \notin ReachWithin(from, _i - 1)
        /\ pc = "returned" => to \in ReachWithin(from, _i)

C18_Witness ==
    /\ pc = "returned"
    /\ ValidBoard(from)
    /\ from # DefaultBoard
    /\ _i = 4
    /\ to \in ReachWithin(from, 4)
    /\ to \notin ReachWithin(from, 3)

\* C20: for a valid start and a reachable goal other than the start, the
\* sequence returned is the lexicographically smallest of the minimum-length
\* sequences of legal moves from start to goal.
C20_LexicographicallySmallest ==
    (pc = "returned" /\ ValidBoard(from) /\ ~eq(from, to)) =>
        /\ Takes(from, result, to)
        /\ \A s \in [1..Len(result) -> Move] :
               Takes(from, s, to) => (s = result \/ LexLess(result, s))

C20_Witness ==
    /\ pc = "returned"
    /\ from = DefaultBoard
    /\ Takes(from, AroundBlock, to)
    /\ result # AroundBlock
    /\ Len(result) = Len(AroundBlock)
    /\ LexLess(result, AroundBlock)


\* ------------------------------------------------ claims under SetSpec
\* C11: all_tiles_unique is true exactly for the boards that are a bijection
\* between the 16 cells and {1..15, empty}.  A set() on such a board that
\* writes a tile held by another cell, or a value outside 1..15, makes it
\* false; it is true again after a set() that makes the board a bijection.
C11_UniqueIffBijection ==
    /\ all_tiles_unique(board) <=> ValidBoard(board)
    /\ (/\ last.op = "set"
        /\ all_tiles_unique(last.pre)
        /\ last.tile # None
        /\ \/ last.tile \notin 1..15
           \/ \E c \in Cells : c # <<last.x, last.y>> /\ At(last.pre, c) = last.tile)
       => ~all_tiles_unique(board)
    /\ (last.op = "set" /\ ~all_tiles_unique(last.pre) /\ ValidBoard(board))
       => all_tiles_unique(board)

\* A set() has made a board with a duplicated tile unique again, and the
\* board is not the default one (set(3, 0, Some(1)) then set(0, 0, Some(4))).
C11_Witness ==
    /\ last.op = "set"
    /\ ValidBoard(DefaultBoard) /\ all_tiles_unique(DefaultBoard)
    /\ ~all_tiles_unique(last.pre)
    /\ TileCount(last.pre, 1) = 2
    /\ all_tiles_unique(board)
    /\ board # DefaultBoard


\* ---------------------------------------------- claims under ParseSpec
\* The number of delimiters in a row.
DelimCount(row) == Cardinality({j \in 1..Len(row) : row[j] = Bar})

\* The position of the n-th delimiter of a row.
DelimAt(row, n) ==
    LET delims == {j \in 1..Len(row) : row[j] = Bar}
    IN  CHOOSE j \in delims : Cardinality({h \in delims : h <= j}) = n

\* Slot c (1..4) of a row with five delimiters: the text between the c-th
\* delimiter and the next, without the blanks around it.
SlotText(row, c) == trim(SubSeq(row, DelimAt(row, c) + 1, DelimAt(row, c + 1) - 1))

\* An unsigned integer as Rust's u8 grammar writes it: digits, with an
\* optional plus sign before them.
IsUnsigned(token) ==
    LET body == IF token # <<>> /\ token[1] = "+" THEN SubSeq(token, 2, Len(token)) ELSE token
    IN  body # <<>> /\ \A j \in 1..Len(body) : IsDigit(body[j])

\* What a token denotes: None when blank, the number written when it is an
\* unsigned integer, "text" otherwise.
Denoted(token) ==
    IF token = <<>> THEN <<"blank", None>>
    ELSE IF ~IsUnsigned(token) THEN <<"text", None>>
    ELSE <<"tile", DecimalValue(IF token[1] = "+" THEN SubSeq(token, 2, Len(token)) ELSE token)>>

\* Four non-blank rows of five delimiters each.
WellShapedRows(rows) ==
    /\ Len(rows) = 4
    /\ \A r \in 1..4 : DelimCount(rows[r]) = 5

WellShaped(t) == WellShapedRows(RowsOf(t))

Slots == (1..4) \X (1..4)

\* The slots of a well-shaped text: <<r, c, kind, value>> for slot c of row r.
SlotTable(t) ==
    LET rows == RowsOf(t)
    IN  {<<rc[1], rc[2]>> \o Denoted(SlotText(rows[rc[1]], rc[2])) : rc \in Slots}

\* The value slot c of row r denotes in a well-shaped text.
SlotOf(t, r, c) == (CHOOSE slot \in SlotTable(t) : slot[1] = r /\ slot[2] = c)[4]

\* Every slot of a well-shaped text is blank or an unsigned integer.
WellTokened(t) == \A slot \in SlotTable(t) : slot[3] # "text"

BlankSlots(t) == {slot \in SlotTable(t) : slot[3] = "blank"}

\* Content that fails validity: a duplicated tile, a tile value 0 or greater
\* than 15, or more than one empty slot.
BadContent(t) ==
    LET table == SlotTable(t)
        tiles == {slot \in table : slot[3] = "tile"}
    IN  \/ Cardinality({slot[4] : slot \in tiles}) < Cardinality(tiles)
        \/ \E slot \in tiles : slot[4] = 0 \/ slot[4] > 15
        \/ Cardinality({slot \in table : slot[3] = "blank"}) > 1

\* C13: from_str returns None for a text whose number of non-blank rows is not
\* 4, for a row with fewer or more than five delimiters, for a non-blank slot
\* that is not an unsigned integer, and for content that fails validity (a
\* duplicated tile, a tile 0 or above 15, more than one empty slot).
C13_MalformedTextGivesNone ==
    (ppc = "parsed") =>
        LET rows == RowsOf(text)
        IN  /\ Len(rows) # 4 => parsed = <<>>
            /\ (\E r \in 1..Len(rows) : DelimCount(rows[r]) # 5) => parsed = <<>>
            /\ (\E r \in 1..Len(rows) :
                   /\ DelimCount(rows[r]) = 5
                   /\ \E c \in 1..4 : Denoted(SlotText(rows[r], c))[1] = "text")
               => parsed = <<>>
            /\ (WellShapedRows(rows) /\ WellTokened(text) /\ BadContent(text)) => parsed = <<>>

\* A well-shaped text of numbers with two empty slots was refused.
C13_Witness ==
    /\ ppc = "parsed"
    /\ edited
    /\ WellShaped(text) /\ WellTokened(text)
    /\ Cardinality(BlankSlots(text)) = 2
    /\ parsed = <<>>

\* C14: for a board b reached from the default board by legal moves,
\* from_str(render(b)) is Some board equal to b, rendering the parsed board
\* gives the same text again, and slot c of row r of the text is get(c, r).
C14_RoundTrip ==
    (ppc = "parsed" /\ ~edited) =>
        /\ parsed # <<>>
        /\ eq(parsed[1], board)
        /\ fmt(parsed[1]) = text
        /\ WellShaped(text)
        /\ \A r \in Idx, c \in Idx : SlotOf(text, r + 1, c + 1) = get(board, c, r)

\* The text of a board with its empty cell in the interior was parsed back.
C14_Witness ==
    /\ ppc = "parsed"
    /\ ~edited
    /\ ValidBoard(board)
    /\ TheEmpty(board) = <<2, 2>>
    /\ parsed = <<board>>
    /\ SlotOf(text, 3, 3) = None
    /\ SlotOf(text, 3, 4) = 11

\* C19: from_str returns None for a row with non-blank text before its first
\* delimiter or after its last one, also when the row has exactly five
\* delimiters and its four slots make, with the other rows, a valid board.
C19_TextOutsideDelimitersGivesNone ==
    (ppc = "parsed") =>
        LET rows == RowsOf(text)
        IN  (\E r \in 1..Len(rows) : rows[r][1] # Bar \/ rows[r][Len(rows[r])] # Bar)
            => parsed = <<>>

====
